---------------------------- MODULE Spec2Model ----------------------------
(***************************************************************************)
(* Vaccination series of menoua/covid-19-data (cowidev.vax): the per-source *)
(* pipelines under scripts/src/cowidev/vax/{incremental,batch}, the merge   *)
(* of one observation into a location's persisted series, the WHO           *)
(* multi-location reconciler, and the manufacturer breakdowns.              *)
(*                                                                          *)
(* Dates are day numbers, counts are small naturals, a missing value (NaN,  *)
(* None, a blank CSV cell) is NaN.  A rendered vaccine string "a, b" is the *)
(* sequence <<"a", "b">> of the names joined by ", ".                      *)
(***************************************************************************)
EXTENDS Integers, Sequences, FiniteSets, TLC

VARIABLES
    series,     \* location -> persisted series (output/<location>.csv), a sequence of observations
    last,       \* outcome of the last pipeline run that reached or failed before increment
    today,      \* the calendar day localdate() returns
    runs,       \* number of pipeline runs so far
    inp,        \* input of the last batch / reconciler / resolver step
    out,        \* result of the last batch / reconciler / resolver step
    task,       \* script -> state of the script's running task (parallel runs)
    applied     \* location -> observations whose merge was written, in order (history)

vars == <<series, last, today, runs, inp, out, task, applied>>

-----------------------------------------------------------------------------
(* Bounds of the model *)

MaxDate == 3
MaxCount == 1
MaxRuns == 3

Dates == 1..MaxDate
Counts == 0..MaxCount

(* pandas NaN / Python None: a value that is absent *)
NaN == -1

isnull(x) == x = NaN

-----------------------------------------------------------------------------
(* Observations and series *)

CumulativeFields ==
    {"total_vaccinations", "people_vaccinated", "people_fully_vaccinated", "total_boosters"}

IncrementalLocations == {"Japan", "Taiwan", "Jordan", "Philippines"}

NoObs ==
    [date |-> 0, total_vaccinations |-> NaN, people_vaccinated |-> NaN,
     people_fully_vaccinated |-> NaN, total_boosters |-> NaN,
     vaccine |-> << >>, source_url |-> ""]

SeriesDates(s) == {s[i].date : i \in 1..Len(s)}

StrictlyAscending(s) == \A i \in 1..(Len(s) - 1) : s[i].date < s[i + 1].date

(* One cumulative field does not regress from the earlier observation a to *)
(* the later observation b; an unknown side cannot be compared.            *)
FieldNonRegressing(a, b, f) == isnull(a[f]) \/ isnull(b[f]) \/ a[f] <= b[f]

NonRegressing(a, b) == \A f \in CumulativeFields : FieldNonRegressing(a, b, f)

RegressingFields(a, b) == {f \in CumulativeFields : ~FieldNonRegressing(a, b, f)}

-----------------------------------------------------------------------------
(* Incremental Merge Engine (cowidev.vax.utils.incremental.increment)      *)

(* Binary search: the first index in lo..hi whose date is >= d (hi if none) *)
RECURSIVE LowerBound(_, _, _, _)
LowerBound(s, d, lo, hi) ==
    IF lo >= hi THEN lo
    ELSE LET mid == (lo + hi) \div 2
         IN  IF s[mid].date < d THEN LowerBound(s, d, mid + 1, hi)
                                ELSE LowerBound(s, d, lo, mid)

Position(s, d) == LowerBound(s, d, 1, Len(s) + 1)

UpsertAppend(s, o) == Append(s, o)

UpsertNoReplace(s, o) ==
    LET i == Position(s, o.date)
    IN  SubSeq(s, 1, i - 1) \o <<o>> \o SubSeq(s, i, Len(s))

(* Replace the entry of o's date, or insert o where it keeps dates ascending *)
Upsert(s, o) ==
    LET i == Position(s, o.date)
    IN  IF i <= Len(s) /\ s[i].date = o.date
        THEN [s EXCEPT ![i] = o]
        ELSE SubSeq(s, 1, i - 1) \o <<o>> \o SubSeq(s, i, Len(s))

(* The entry at i does not regress against its predecessor and successor *)
NeighboursOK(s, i) ==
    /\ i > 1 => NonRegressing(s[i - 1], s[i])
    /\ i < Len(s) => NonRegressing(s[i], s[i + 1])

mergeKeepFailed(s, o) ==
    LET t == Upsert(s, o)
    IN  [status |-> IF NeighboursOK(t, Position(s, o.date)) THEN "ok" ELSE "RegressionError",
         series |-> t]

(* merge(series, newObservation): the updated series, or RegressionError   *)
(* with the series as it was                                               *)
merge(s, o) ==
    LET t == Upsert(s, o)
        i == Position(s, o.date)
    IN  IF NeighboursOK(t, i)
        THEN [status |-> "ok", series |-> t]
        ELSE [status |-> "RegressionError", series |-> s]


(* increment(location, ...): read the location's series, merge, write back *)
increment(ser, location, o) ==
    LET m == merge(ser[location], o)
    IN  [status |-> m.status, series |-> [ser EXCEPT ![location] = m.series]]

-----------------------------------------------------------------------------
(* Vaccine names and their order under Python's sorted(): the canonical     *)
(* names, the WHO feed's product names, and " " (which sorts before letters) *)

VaccineRank(v) ==
    CASE v = " " -> 0
      [] v = "BBIBP" -> 1
      [] v = "Comirnaty" -> 2
      [] v = "Janssen" -> 3
      [] v = "Johnson&Johnson" -> 4
      [] v = "Medigen" -> 5
      [] v = "Moderna" -> 6
      [] v = "Oxford/AstraZeneca" -> 7
      [] v = "Pfizer/BioNTech" -> 8
      [] v = "Sinopharm/Beijing" -> 9
      [] v = "Sinovac" -> 10
      [] v = "Sputnik V" -> 11

(* sorted(S) for a set S of canonical names *)
RECURSIVE SortedNames(_)
SortedNames(S) ==
    IF S = {} THEN << >>
    ELSE LET m == CHOOSE x \in S : \A y \in S : VaccineRank(x) <= VaccineRank(y)
         IN  <<m>> \o SortedNames(S \ {m})

Observation(date, tv, pv, pfv, tb, vaccine, url) ==
    [date |-> date, total_vaccinations |-> tv, people_vaccinated |-> pv,
     people_fully_vaccinated |-> pfv, total_boosters |-> tb,
     vaccine |-> vaccine, source_url |-> url]

Failed(location, status) == [status |-> status, location |-> location, obs |-> NoObs]

-----------------------------------------------------------------------------
(* incremental/japan.py *)

JapanLocation == "Japan"

JapanVaccine == <<"Moderna", "Pfizer/BioNTech", "Oxford/AstraZeneca">>

(* connect_parse_data + pipeline: the three counts of the page's table *)
JapanData(total, pv, pfv, date) ==
    IF total = pv + pfv
    THEN [status |-> "ok", location |-> JapanLocation,
          obs |-> Observation(date, total, pv, pfv, NaN, JapanVaccine,
                              "https://www.kantei.go.jp/jp/headline/kansensho/vaccine.html")]
    ELSE Failed(JapanLocation, "AssertionError")

-----------------------------------------------------------------------------
(* incremental/taiwan.py *)

TaiwanLocation == "Taiwan"

(* vaccines_mapping; the key "GaoDuan" stands for the source's Chinese name of Medigen *)
vaccines_mapping ==
    [AstraZeneca |-> "Oxford/AstraZeneca", GaoDuan |-> "Medigen",
     Moderna |-> "Moderna", BioNTech |-> "Pfizer/BioNTech"]

(* _parse_stats: doses of the last "dose 1" and "dose 2" rows *)
TaiwanParseStats(num_dose1, num_dose2) ==
    [total_vaccinations |-> num_dose1 + num_dose2, people_vaccinated |-> num_dose1]

(* _parse_vaccines: raises on a name that is not a key of vaccines_mapping *)
TaiwanParseVaccines(vaccines) ==
    LET vaccines_wrong == vaccines \ DOMAIN vaccines_mapping
    IN  IF vaccines_wrong # {}
        THEN [status |-> "ValueError", wrong |-> vaccines_wrong, vaccine |-> << >>]
        ELSE [status |-> "ok", wrong |-> {},
              vaccine |-> SortedNames({vaccines_mapping[vax] : vax \in vaccines})]

(* pipe_metrics: people_fully_vaccinated = total_vaccinations - people_vaccinated *)
TaiwanPipeMetrics(ds) ==
    IF "people_vaccinated" \in DOMAIN ds
    THEN [f \in DOMAIN ds \cup {"people_fully_vaccinated"} |->
            IF f = "people_fully_vaccinated"
            THEN ds.total_vaccinations - ds.people_vaccinated
            ELSE ds[f]]
    ELSE ds

(* read + pipeline + the arguments to_csv hands to increment *)
TaiwanData(num_dose1, num_dose2, date, vaccines) ==
    LET stats == TaiwanParseStats(num_dose1, num_dose2)
        vax == TaiwanParseVaccines(vaccines)
        data == TaiwanPipeMetrics(stats)
    IN  IF vax.status # "ok" THEN Failed(TaiwanLocation, "ValueError")
        ELSE [status |-> "ok", location |-> TaiwanLocation,
              obs |-> IF "people_vaccinated" \in DOMAIN data
                      THEN Observation(date, data.total_vaccinations, data.people_vaccinated,
                                       data.people_fully_vaccinated, NaN, vax.vaccine,
                                       "https://www.cdc.gov.tw/Category/Page/9jFXNbCe-sFK9EImRRi2Og")
                      ELSE Observation(date, data.total_vaccinations, NaN, NaN, NaN, vax.vaccine,
                                       "https://www.cdc.gov.tw/Category/Page/9jFXNbCe-sFK9EImRRi2Og")]

-----------------------------------------------------------------------------
(* incremental/jordan.py *)

JordanLocationJapan == "Japan"

JordanLocation == "Jordan"

JordanVaccine == <<"Pfizer/BioNTech", "Sinopharm/Beijing", "Sputnik V", "Oxford/AstraZeneca">>

(* pipe_vaccinations: total_vaccinations = people_vaccinated + people_fully_vaccinated *)
JordanPipeVaccinations(people_vaccinated, people_fully_vaccinated) ==
    people_vaccinated + people_fully_vaccinated

JordanData(people_vaccinated, people_fully_vaccinated, date) ==
    [status |-> "ok", location |-> JordanLocation,
     obs |-> Observation(date, JordanPipeVaccinations(people_vaccinated, people_fully_vaccinated),
                         people_vaccinated, people_fully_vaccinated, NaN, JordanVaccine,
                         "https://corona.moh.gov.jo/ar")]

-----------------------------------------------------------------------------
(* incremental/philippines.py *)

PhilippinesLocation == "Philippines"

PhilippinesVaccine ==
    <<"Johnson&Johnson", "Moderna", "Oxford/AstraZeneca", "Pfizer/BioNTech",
      "Sinopharm/Beijing", "Sinovac", "Sputnik V">>

(* Only the two checks against total_vaccinations *)
PhilippinesChecksTotalOnly(total_vaccinations, people_fully_vaccinated, total_boosters) ==
    /\ ~(total_vaccinations < people_fully_vaccinated)
    /\ ~(total_vaccinations < total_boosters)

(* _parse_data: the three checks raise before anything is returned *)
PhilippinesChecks(total_vaccinations, people_fully_vaccinated, total_boosters) ==
    /\ ~(total_vaccinations < people_fully_vaccinated)
    /\ ~(total_vaccinations < total_boosters)
    /\ ~(people_fully_vaccinated < total_boosters)

PhilippinesData(total_vaccinations, people_fully_vaccinated, total_boosters, date) ==
    IF PhilippinesChecks(total_vaccinations, people_fully_vaccinated, total_boosters)
    THEN [status |-> "ok", location |-> PhilippinesLocation,
          obs |-> Observation(date, total_vaccinations, NaN, people_fully_vaccinated,
                              total_boosters, PhilippinesVaccine,
                              "https://news.abs-cbn.com/spotlight/multimedia/infographic/03/23/21/philippines-covid-19-vaccine-tracker")]
    ELSE Failed(PhilippinesLocation, "ValueError")

-----------------------------------------------------------------------------
(* State *)

BatchLocations == {"Saudi Arabia", "Hong Kong", "France", "Peru"}

WHOLocations == {"Gambia", "Tanzania"}

Locations == IncrementalLocations \cup BatchLocations \cup WHOLocations

NoRun == [op |-> "none", location |-> "", obs |-> NoObs, status |-> "none", before |-> << >>]

NoStep == [op |-> "none"]

(* The incremental scripts, one process each *)
Scripts == {"japan", "taiwan", "jordan", "philippines", "who"}

Idle == [pc |-> "idle"]

NoTasks == [s \in Scripts |-> Idle]

InitIdle ==
    /\ series = [l \in Locations |-> << >>]
    /\ last = NoRun
    /\ today = 1
    /\ runs = 0
    /\ inp = NoStep
    /\ out = NoStep
    /\ task = NoTasks
    /\ applied = [l \in Locations |-> << >>]

-----------------------------------------------------------------------------
(* The incremental pipelines, run one after another in any order *)

TaiwanVaccineInputs == {{"AstraZeneca", "Moderna"}, {"AstraZeneca", "Novavax"}}

(* main() / export() / to_csv(): parse, then increment; an exception raised *)
(* while parsing or merging ends the run                                    *)
RunIncremental(op, data) ==
    /\ runs < MaxRuns
    /\ runs' = runs + 1
    /\ IF data.status = "ok"
       THEN LET r == increment(series, data.location, data.obs)
            IN  /\ series' = r.series
                /\ last' = [op |-> op, location |-> data.location, obs |-> data.obs,
                            status |-> r.status, before |-> series[data.location]]
       ELSE /\ series' = series
            /\ last' = [op |-> op, location |-> data.location, obs |-> NoObs,
                        status |-> data.status, before |-> series[data.location]]
    /\ UNCHANGED <<today, inp, out, task, applied>>

JapanMain ==
    \E total \in 0..(2 * MaxCount), pv \in Counts, pfv \in Counts :
        RunIncremental("Japan", JapanData(total, pv, pfv, today))

TaiwanToCsv ==
    \E d1 \in Counts, d2 \in Counts, date \in Dates, vaccines \in TaiwanVaccineInputs :
        RunIncremental("Taiwan", TaiwanData(d1, d2, date, vaccines))

JordanExport ==
    \E pv \in Counts, pfv \in Counts :
        RunIncremental("Jordan", JordanData(pv, pfv, today))

PhilippinesExport ==
    \E total \in Counts, pfv \in Counts, boosters \in Counts, date \in Dates :
        RunIncremental("Philippines", PhilippinesData(total, pfv, boosters, date))

(* The calendar day advances *)
Tick ==
    /\ today < MaxDate
    /\ today' = today + 1
    /\ UNCHANGED <<series, last, runs, inp, out, task, applied>>

NextMerge == JapanMain \/ TaiwanToCsv \/ JordanExport \/ PhilippinesExport \/ Tick

SpecMerge == InitIdle /\ [][NextMerge]_vars

-----------------------------------------------------------------------------
(* Properties of the merge, over the runs of the incremental pipelines *)

LastMerged == last.status \in {"ok", "RegressionError"}

(* The entries of b next to date d: the last one before it, the first one after it *)
PredecessorOf(b, d) ==
    LET before == {i \in 1..Len(b) : b[i].date < d}
    IN  IF before = {} THEN << >>
        ELSE <<b[CHOOSE i \in before : \A j \in before : j <= i]>>

SuccessorOf(b, d) ==
    LET after == {i \in 1..Len(b) : b[i].date > d}
    IN  IF after = {} THEN << >>
        ELSE <<b[CHOOSE i \in after : \A j \in after : i <= j]>>

WouldRegress(b, o) ==
    \/ \E p \in {PredecessorOf(b, o.date)} : p # << >> /\ RegressingFields(p[1], o) # {}
    \/ \E n \in {SuccessorOf(b, o.date)} : n # << >> /\ RegressingFields(o, n[1]) # {}

(* C1: merging again the observation that was just merged successfully     *)
(* succeeds and leaves the series as it is: merge(merge(S, o), o) =         *)
(* merge(S, o) for every series S a location reached and every observation *)
(* o a pipeline merged into it.                                            *)
C1_MergeIdempotent ==
    last.status = "ok" =>
        LET once == merge(last.before, last.obs)
            twice == merge(once.series, last.obs)
        IN  /\ once.series = series[last.location]
            /\ twice.status = "ok"
            /\ twice.series = once.series

(* A run re-merged an observation whose date was already in the series, and *)
(* the series is what it was                                               *)
C1_Witness ==
    /\ last.status = "ok"
    /\ last.obs.date \in SeriesDates(last.before)
    /\ Len(last.before) >= 2
    /\ series[last.location] = last.before

(* C2: every series is strictly date-ascending (one observation per date); *)
(* a successful merge of an existing date replaces exactly that entry, and *)
(* a merge of a new date inserts it and keeps every other entry in order.  *)
C2_UpsertByDate ==
    /\ \A l \in Locations : StrictlyAscending(series[l])
    /\ last.status = "ok" =>
        LET b == last.before
            s == series[last.location]
            o == last.obs
        IN  IF o.date \in SeriesDates(b)
            THEN /\ Len(s) = Len(b)
                 /\ \A i \in 1..Len(b) : s[i] = IF b[i].date = o.date THEN o ELSE b[i]
            ELSE /\ Len(s) = Len(b) + 1
                 /\ \E i \in 1..Len(s) :
                        /\ s[i] = o
                        /\ SubSeq(s, 1, i - 1) = SubSeq(b, 1, i - 1)
                        /\ SubSeq(s, i + 1, Len(s)) = SubSeq(b, i, Len(b))

(* The newest write replaced a different entry of its date, the first of a *)
(* series of two, and the later entry is untouched                         *)
C2_Witness ==
    /\ last.status = "ok"
    /\ Len(last.before) = 2
    /\ last.obs.date = last.before[1].date
    /\ last.obs # last.before[1]
    /\ series[last.location] = <<last.obs, last.before[2]>>

(* C4: an observation that makes a cumulative field regress against the     *)
(* entry before or after its date is rejected with RegressionError, and the *)
(* series is exactly what it was before the call.                          *)
C4_RegressionRejected ==
    /\ (LastMerged /\ WouldRegress(last.before, last.obs)) =>
            /\ last.status = "RegressionError"
            /\ series[last.location] = last.before
    /\ last.status = "RegressionError" => series[last.location] = last.before

(* The series ended at (D1, total 2) and the run brought (D2, total 1), D2 > D1 *)
C4_Witness ==
    /\ last.status = "RegressionError"
    /\ Len(last.before) >= 1
    /\ last.before[Len(last.before)].date < last.obs.date
    /\ last.before[Len(last.before)].total_vaccinations = 2
    /\ last.obs.total_vaccinations = 1
    /\ series[last.location] = last.before

-----------------------------------------------------------------------------
(* Helpers over columns that may hold NaN *)

Max(S) == CHOOSE x \in S : \A y \in S : y <= x

(* pandas max() of a column: NaN is skipped, an all-NaN column gives NaN *)
ColumnMax(S) == IF S \ {NaN} = {} THEN NaN ELSE Max(S \ {NaN})

(* The sequence of the elements of a set of dates, ascending *)
RECURSIVE AscendingDates(_)
AscendingDates(S) ==
    IF S = {} THEN << >>
    ELSE LET m == CHOOSE x \in S : \A y \in S : x <= y
         IN  <<m>> \o AscendingDates(S \ {m})

-----------------------------------------------------------------------------
(* batch/saudi_arabia.py *)

(* "2021-02-18": from this day on the vaccine column lists Oxford/AstraZeneca too *)
SaudiAstraZenecaDate == 2

(* "2021-03-03": the day whose record the script drops *)
SaudiErrorDate == 3

(* df.groupby("date", as_index=False).max(): one row per date, ascending *)
SaudiGroupByDateMax(feed) ==
    LET dates == AscendingDates({r.date : r \in feed})
    IN  [i \in 1..Len(dates) |->
            LET rows == {r \in feed : r.date = dates[i]}
            IN  [date |-> dates[i],
                 total_vaccinations |-> ColumnMax({r.total_vaccinations : r \in rows}),
                 people_vaccinated |-> ColumnMax({r.people_vaccinated : r \in rows}),
                 people_fully_vaccinated |-> ColumnMax({r.people_fully_vaccinated : r \in rows})]]

SaudiVaccine(date) ==
    IF date >= SaudiAstraZenecaDate
    THEN <<"Oxford/AstraZeneca", "Pfizer/BioNTech">>
    ELSE <<"Pfizer/BioNTech">>

SaudiKeep(r) == r.total_vaccinations > 0 /\ r.date # SaudiErrorDate

(* main(): the frame written to output/Saudi Arabia.csv *)
SaudiFrame(feed) ==
    LET df == SaudiGroupByDateMax(feed)
        kept == SelectSeq(df, SaudiKeep)
    IN  [i \in 1..Len(kept) |->
            Observation(kept[i].date, kept[i].total_vaccinations, kept[i].people_vaccinated,
                        kept[i].people_fully_vaccinated, NaN, SaudiVaccine(kept[i].date),
                        "https://covid19.moh.gov.sa/")]

-----------------------------------------------------------------------------
(* batch/hong_kong.py *)

(* "2021-03-06": before this day only Sinovac was in use *)
HongKongBioNTechDate == 2

HongKongVaccine(date) ==
    IF date < HongKongBioNTechDate THEN <<"Sinovac">> ELSE <<"Pfizer/BioNTech", "Sinovac">>

(* pipeline + drop(columns=[total_pfizer, total_sinovac]): the rows in the feed's order *)
HongKongFrame(data) ==
    [i \in 1..Len(data) |->
        Observation(data[i].date, data[i].total_vaccinations, data[i].people_vaccinated,
                    data[i].people_fully_vaccinated, NaN, HongKongVaccine(data[i].date),
                    "https://www.covidvaccine.gov.hk/en/dashboard")]

ManufacturerRecord(location, date, vaccine, total) ==
    [location |-> location, date |-> date, vaccine |-> vaccine, total_vaccinations |-> total]

(* stack() of one row: a record per manufacturer column, NaN cells dropped *)
HongKongStack(r) ==
    (IF isnull(r.total_pfizer) THEN << >>
     ELSE <<ManufacturerRecord("Hong Kong", r.date, "Pfizer/BioNTech", r.total_pfizer)>>)
    \o
    (IF isnull(r.total_sinovac) THEN << >>
     ELSE <<ManufacturerRecord("Hong Kong", r.date, "Sinovac", r.total_sinovac)>>)

(* manufacturer_pipeline: wide rows to long records, row by row *)
RECURSIVE manufacturer_pipeline(_)
manufacturer_pipeline(df) ==
    IF df = << >> THEN << >>
    ELSE HongKongStack(Head(df)) \o manufacturer_pipeline(Tail(df))

-----------------------------------------------------------------------------
(* batch/france.py *)

FranceVaccineMapping ==
    (1 :> "Pfizer/BioNTech") @@ (2 :> "Moderna") @@ (3 :> "Oxford/AstraZeneca")
        @@ (4 :> "Johnson&Johnson")

one_dose_vaccines == {"Johnson&Johnson"}

(* a + b on columns: NaN if either side is NaN *)
NaNAdd(a, b) == IF isnull(a) \/ isnull(b) THEN NaN ELSE a + b

(* sum() of a grouped column: NaN cells are skipped, no cell gives 0 *)
RECURSIVE SumSkipNaN(_, _)
SumSkipNaN(df, f) ==
    IF df = << >> THEN 0
    ELSE (IF isnull(Head(df)[f]) THEN 0 ELSE Head(df)[f]) + SumSkipNaN(Tail(df), f)

(* sorted(x) for a sequence of canonical names (duplicates kept) *)
RECURSIVE SortedSeq(_)
SortedSeq(x) ==
    IF x = << >> THEN << >>
    ELSE LET i == CHOOSE k \in 1..Len(x) :
                    \A j \in 1..Len(x) : VaccineRank(x[k]) <= VaccineRank(x[j])
         IN  <<x[i]>> \o SortedSeq(SubSeq(x, 1, i - 1) \o SubSeq(x, i + 1, Len(x)))

(* df[(df.vaccine.isin(vaccine_mapping.keys())) & (df.people_vaccinated > 0)] *)
FranceFilter(r) ==
    /\ r.vaccine \in DOMAIN FranceVaccineMapping
    /\ ~isnull(r.people_vaccinated) /\ r.people_vaccinated > 0

(* replace(vaccine_mapping) and total_vaccinations = dose1 + dose2 + dose3 *)
FranceMapRow(r) ==
    [date |-> r.date,
     vaccine |-> IF r.vaccine \in DOMAIN FranceVaccineMapping
                 THEN FranceVaccineMapping[r.vaccine] ELSE r.vaccine,
     people_vaccinated |-> r.people_vaccinated,
     people_fully_vaccinated |-> r.people_fully_vaccinated,
     total_boosters |-> r.total_boosters,
     total_vaccinations |->
        NaNAdd(NaNAdd(r.people_vaccinated, r.people_fully_vaccinated), r.total_boosters)]

(* df.loc[df.vaccine.isin(one_dose_vaccines), "people_fully_vaccinated"] = df.people_vaccinated *)
FranceInfer(r) ==
    IF r.vaccine \in one_dose_vaccines
    THEN [r EXCEPT !.people_fully_vaccinated = r.people_vaccinated]
    ELSE r

(* groupby("date").agg(sum, ..., vaccine: ", ".join(sorted(x))) *)
FranceAggregate(df) ==
    LET dates == AscendingDates({df[i].date : i \in 1..Len(df)})
    IN  [k \in 1..Len(dates) |->
            LET IsDate(r) == r.date = dates[k]
                rows == SelectSeq(df, IsDate)
            IN  Observation(dates[k],
                    SumSkipNaN(rows, "total_vaccinations"),
                    SumSkipNaN(rows, "people_vaccinated"),
                    SumSkipNaN(rows, "people_fully_vaccinated"),
                    SumSkipNaN(rows, "total_boosters"),
                    SortedSeq([i \in 1..Len(rows) |-> rows[i].vaccine]),
                    "https://www.data.gouv.fr/fr/datasets/donnees-relatives-aux-personnes-vaccinees-contre-la-covid-19-1/")]

(* main(): everything the run computes from the feed *)
FranceRun(feed) ==
    LET filtered == SelectSeq(feed, FranceFilter)
        asserted == {filtered[i].vaccine : i \in 1..Len(filtered)} = DOMAIN FranceVaccineMapping
        df == [i \in 1..Len(filtered) |-> FranceMapRow(filtered[i])]
        manufacturer == [i \in 1..Len(df) |->
                            [date |-> df[i].date, total_vaccinations |-> df[i].total_vaccinations,
                             vaccine |-> df[i].vaccine, location |-> "France"]]
        inferred == [i \in 1..Len(df) |-> FranceInfer(df[i])]
    IN  IF ~asserted
        THEN [op |-> "France", status |-> "AssertionError", kept |-> filtered, mapped |-> << >>,
              manufacturer |-> << >>, inferred |-> << >>, frame |-> << >>]
        ELSE [op |-> "France", status |-> "ok", kept |-> filtered, mapped |-> df,
              manufacturer |-> manufacturer, inferred |-> inferred,
              frame |-> FranceAggregate(inferred)]

-----------------------------------------------------------------------------
(* batch/peru.py *)

PeruVaccineMapping ==
    [SINOPHARM |-> "Sinopharm/Beijing", PFIZER |-> "Pfizer/BioNTech",
     ASTRAZENECA |-> "Oxford/AstraZeneca"]

(* A blank "fabricante" cell *)
NoToken == "<NaN>"

PeruHasVaccine(r) == r.vaccine # NoToken

(* pipe_rename_columns: dropna(subset=["vaccine"]) *)
PeruRenameColumns(feed) == SelectSeq(feed, PeruHasVaccine)

(* pipe_checks: unknown vaccine names, then invalid dose numbers *)
PeruChecks(df) ==
    LET unknown_vaccines == {df[i].vaccine : i \in 1..Len(df)} \ DOMAIN PeruVaccineMapping
        dose_num_wrong == {df[i].dosis : i \in 1..Len(df)} \ {1, 2, 3}
    IN  IF unknown_vaccines # {}
        THEN [status |-> "ValueError", check |-> "vaccine", unknown |-> unknown_vaccines]
        ELSE IF dose_num_wrong # {}
        THEN [status |-> "ValueError", check |-> "dosis", unknown |-> {}]
        ELSE [status |-> "ok", check |-> "", unknown |-> {}]

(* n_reg summed over the rows of one dose up to a date: groupby.sum, pivot, *)
(* fillna(0), cumsum                                                       *)
PeruCumulative(df, date, dose) ==
    LET Upto(r) == r.dosis = dose /\ r.date <= date
    IN  SumSkipNaN(SelectSeq(df, Upto), "n_reg")

(* pipe_format + pipe_total_vaccinations + pipe_metadata *)
PeruFrame(df) ==
    LET dates == AscendingDates({df[i].date : i \in 1..Len(df)})
    IN  [k \in 1..Len(dates) |->
            LET pv == PeruCumulative(df, dates[k], 1)
                pfv == PeruCumulative(df, dates[k], 2)
                tb == PeruCumulative(df, dates[k], 3)
            IN  Observation(dates[k], pv + pfv + tb, pv, pfv, tb,
                    SortedNames({PeruVaccineMapping[v] : v \in DOMAIN PeruVaccineMapping}),
                    "https://www.datosabiertos.gob.pe/dataset/vacunacion")]

(* pipeline(): a dose column no row fills is missing after the pivot, and  *)
(* pipe_total_vaccinations fails on it                                     *)
PeruRun(feed) ==
    LET df == PeruRenameColumns(feed)
        checks == PeruChecks(df)
        tokens == {df[i].vaccine : i \in 1..Len(df)}
    IN  IF checks.status # "ok"
        THEN [op |-> "Peru", status |-> checks.status, check |-> checks.check,
              tokens |-> tokens, unknown |-> checks.unknown, frame |-> << >>]
        ELSE IF {df[i].dosis : i \in 1..Len(df)} # {1, 2, 3}
        THEN [op |-> "Peru", status |-> "AttributeError", check |-> "",
              tokens |-> tokens, unknown |-> {}, frame |-> << >>]
        ELSE [op |-> "Peru", status |-> "ok", check |-> "",
              tokens |-> tokens, unknown |-> {}, frame |-> PeruFrame(df)]

-----------------------------------------------------------------------------
(* The batch pipelines: a run rebuilds its outputs from the feed it read.   *)
(* The feed of the run is drawn when the run starts.                       *)

BatchCounts == 0..(MaxCount + 1)

SaudiRows ==
    [date : Dates, total_vaccinations : BatchCounts \cup {NaN},
     people_vaccinated : Counts \cup {NaN}, people_fully_vaccinated : {NaN, 0}]

(* A second record of the feed: a positive or zero total, no second doses yet *)
SaudiSecondRows ==
    {r \in SaudiRows : r.total_vaccinations \in {0, 1} /\ isnull(r.people_fully_vaccinated)}

SaudiFeeds == {{}} \cup {{r1, r2} : r1 \in SaudiRows, r2 \in SaudiSecondRows}

HongKongRows ==
    [date : Dates, total_vaccinations : BatchCounts \cup {NaN},
     people_vaccinated : {1}, people_fully_vaccinated : {0},
     total_pfizer : Counts \cup {NaN}, total_sinovac : Counts \cup {NaN}]

(* A second day of the feed: the last day, with a total *)
HongKongSecondRows ==
    {r \in HongKongRows : r.date = MaxDate /\ r.total_vaccinations = 1}

HongKongFeeds ==
    {<< >>} \cup {<<r>> : r \in HongKongRows}
            \cup {<<r1, r2>> : r1 \in HongKongRows, r2 \in HongKongSecondRows}

FranceRow(vaccine, date, pv, pfv, tb) ==
    [vaccine |-> vaccine, date |-> date, people_vaccinated |-> pv,
     people_fully_vaccinated |-> pfv, total_boosters |-> tb]

(* Rows of the four mapped products on day 1, and the same without product 4 *)
FranceAllProducts == [v \in 1..4 |-> FranceRow(v, 1, 1, 1, 0)]

FrancePrefixes == {SubSeq(FranceAllProducts, 1, 3), FranceAllProducts}

(* Product 0 is the source's "all vaccines" aggregate, which the mapping lacks *)
FranceRows ==
    {FranceRow(v, d, pv, pfv, tb) :
        v \in 0..4, d \in {1, 2}, pv \in BatchCounts \cup {NaN},
        pfv \in BatchCounts \cup {NaN}, tb \in Counts \cup {NaN}}

FranceFeeds == FrancePrefixes \cup {p \o <<r>> : p \in FrancePrefixes, r \in FranceRows}

PeruRows ==
    [date : {1, 2}, vaccine : {"PFIZER", "ASTRAZENECA", "MODERNA", NoToken},
     dosis : 1..4, n_reg : {1}]

PeruPrefixes == {<< >>, [d \in 1..3 |-> [date |-> 1, vaccine |-> "PFIZER", dosis |-> d, n_reg |-> 1]]}

PeruFeeds ==
    PeruPrefixes \cup {p \o <<r>> : p \in PeruPrefixes, r \in PeruRows}
                 \cup {p \o <<r1, r2>> : p \in PeruPrefixes, r1 \in PeruRows, r2 \in PeruRows}

BatchInputs ==
    {[op |-> "Saudi Arabia", feed |-> f] : f \in SaudiFeeds}
        \cup {[op |-> "Hong Kong", feed |-> f] : f \in HongKongFeeds}
        \cup {[op |-> "France", feed |-> f] : f \in FranceFeeds}
        \cup {[op |-> "Peru", feed |-> f] : f \in PeruFeeds}

InitBatch ==
    /\ series = [l \in Locations |-> << >>]
    /\ last = NoRun
    /\ today = 1
    /\ runs = 0
    /\ inp \in BatchInputs
    /\ out = NoStep
    /\ task = NoTasks
    /\ applied = [l \in Locations |-> << >>]

BatchReady(op) == inp.op = op /\ out = NoStep

SaudiMain ==
    /\ BatchReady("Saudi Arabia")
    /\ out' = [op |-> "Saudi Arabia", status |-> "ok"]
    /\ series' = [series EXCEPT !["Saudi Arabia"] = SaudiFrame(inp.feed)]
    /\ UNCHANGED <<last, today, runs, inp, task, applied>>

HongKongMain ==
    /\ BatchReady("Hong Kong")
    /\ out' = [op |-> "Hong Kong", status |-> "ok",
               manufacturer |-> manufacturer_pipeline(inp.feed)]
    /\ series' = [series EXCEPT !["Hong Kong"] = HongKongFrame(inp.feed)]
    /\ UNCHANGED <<last, today, runs, inp, task, applied>>

FranceMain ==
    /\ BatchReady("France")
    /\ out' = FranceRun(inp.feed)
    /\ series' = IF out'.status = "ok"
                 THEN [series EXCEPT !["France"] = out'.frame]
                 ELSE series
    /\ UNCHANGED <<last, today, runs, inp, task, applied>>

PeruExport ==
    /\ BatchReady("Peru")
    /\ out' = PeruRun(inp.feed)
    /\ series' = IF out'.status = "ok"
                 THEN [series EXCEPT !["Peru"] = out'.frame]
                 ELSE series
    /\ UNCHANGED <<last, today, runs, inp, task, applied>>

NextBatch == SaudiMain \/ HongKongMain \/ FranceMain \/ PeruExport

SpecBatch == InitBatch /\ [][NextBatch]_vars

(* C3: in every series a pipeline has written, each cumulative field       *)
(* (total_vaccinations, people_vaccinated, people_fully_vaccinated,        *)
(* total_boosters) is non-decreasing from every observation to the next.   *)
C3_SeriesNonDecreasing ==
    \A l \in Locations :
        \A i \in 1..(Len(series[l]) - 1) : NonRegressing(series[l][i], series[l][i + 1])

(* C5: the vaccine-mapping step of a pipeline fails exactly when a token of *)
(* its input is not a key of the mapping, and the error names exactly those *)
(* tokens; no token outside the mapping is dropped without an error.       *)
C5_UnknownVaccineFails ==
    /\ out.op = "Peru" =>
            LET absent == out.tokens \ DOMAIN PeruVaccineMapping
            IN  /\ (out.status = "ValueError" /\ out.check = "vaccine") <=> absent # {}
                /\ out.unknown = absent
    /\ out.op = "France" =>
            LET tokens == {inp.feed[i].vaccine : i \in 1..Len(inp.feed)}
                absent == tokens \ DOMAIN FranceVaccineMapping
            IN  absent # {} => out.status # "ok"

ObservationFields == CumulativeFields \cup {"date", "vaccine"}

(* C8: the one-dose inference changes nothing but an absent                 *)
(* people_fully_vaccinated of a row whose vaccine is a one-dose product,    *)
(* which becomes people_vaccinated; every other field keeps its value.     *)
C8_OnlyOneDoseInference ==
    (out.op = "France" /\ out.status = "ok") =>
        \A i \in 1..Len(out.mapped) :
            LET b == out.mapped[i]
                a == out.inferred[i]
                derive == b.vaccine \in one_dose_vaccines /\ isnull(b.people_fully_vaccinated)
            IN  /\ \A f \in ObservationFields \ {"people_fully_vaccinated"} : a[f] = b[f]
                /\ a.people_fully_vaccinated =
                        IF derive THEN b.people_vaccinated ELSE b.people_fully_vaccinated

(* The manufacturer cells of a wide Hong Kong row that hold a non-zero value *)
HongKongReported(feed) ==
    {<<i, c>> \in (1..Len(feed)) \X {"total_pfizer", "total_sinovac"} :
        ~isnull(feed[i][c]) /\ feed[i][c] # 0}

(* C9: a manufacturer record is emitted only for a value that is present    *)
(* and non-zero, one record per such value.                                *)
C9_NoZeroOrMissingRecords ==
    /\ (out.op \in {"Hong Kong", "France"} /\ out.status = "ok") =>
            \A i \in 1..Len(out.manufacturer) :
                /\ ~isnull(out.manufacturer[i].total_vaccinations)
                /\ out.manufacturer[i].total_vaccinations # 0
    /\ out.op = "Hong Kong" =>
            Len(out.manufacturer) = Cardinality(HongKongReported(inp.feed))

-----------------------------------------------------------------------------
(* incremental/who.py                                                      *)
(*                                                                          *)
(* A VACCINES_USED string is the sequence of its parts: product names, ","  *)
(* and " ".  A name is the sequence of the parts between two commas, so     *)
(* "Comirnaty, Janssen" is <<"Comirnaty", ",", " ", "Janssen">> and its     *)
(* second name, before stripping, is <<" ", "Janssen">>.                   *)

(* The feed's sanity ceiling: len(df) > 300 *)
WHORowCeiling == 300

(* cowidev.vax.utils.orgs.WHO_COUNTRIES: the feed's country names to locations *)
WHO_COUNTRIES ==
    ("United Republic of Tanzania" :> "Tanzania") @@ ("Gambia" :> "Gambia")

(* cowidev.vax.utils.orgs.WHO_VACCINES: the feed's product names to canonical names *)
WHO_VACCINES ==
    ("Comirnaty" :> "Pfizer/BioNTech") @@ ("Janssen" :> "Johnson&Johnson")
        @@ ("BBIBP" :> "Sinopharm/Beijing")

(* cowidev.vax.utils.checks.VACCINES_ONE_DOSE *)
VACCINES_ONE_DOSE == {"Johnson&Johnson"}

ADDITIONAL_VACCINES_USED ==
    ("Cayman Islands" :> <<"Oxford/AstraZeneca">>) @@ ("Gambia" :> <<"Johnson&Johnson">>)

(* A blank VACCINES_USED cell *)
NaNString == <<NoToken>>

(* str.split(",") *)
RECURSIVE Split(_)
Split(x) ==
    LET commas == {i \in 1..Len(x) : x[i] = ","}
    IN  IF commas = {} THEN <<x>>
        ELSE LET i == CHOOSE k \in commas : \A j \in commas : k <= j
             IN  <<SubSeq(x, 1, i - 1)>> \o Split(SubSeq(x, i + 1, Len(x)))

(* str.strip() *)
RECURSIVE Strip(_)
Strip(xx) ==
    IF xx = << >> THEN xx
    ELSE IF Head(xx) = " " THEN Strip(Tail(xx))
    ELSE IF xx[Len(xx)] = " " THEN Strip(SubSeq(xx, 1, Len(xx) - 1))
    ELSE xx

(* The keys of WHO_VACCINES as names *)
WHOVaccineKeys == {<<k>> : k \in DOMAIN WHO_VACCINES}

(* a <= b for two names, as Python compares strings *)
RECURSIVE NameLE(_, _)
NameLE(a, b) ==
    IF a = << >> THEN TRUE
    ELSE IF b = << >> THEN FALSE
    ELSE IF VaccineRank(Head(a)) # VaccineRank(Head(b))
         THEN VaccineRank(Head(a)) < VaccineRank(Head(b))
         ELSE NameLE(Tail(a), Tail(b))

(* sorted(S) for a set of names *)
RECURSIVE SortedNameSet(_)
SortedNameSet(S) ==
    IF S = {} THEN << >>
    ELSE LET m == CHOOSE x \in S : \A y \in S : NameLE(x, y)
         IN  <<m>> \o SortedNameSet(S \ {m})

WHOGroupCounts(df) ==
    {Cardinality({df[j].DATE_UPDATED : j \in {k \in 1..Len(df) : df[k].COUNTRY = df[i].COUNTRY}}
                    \ {NaN}) : i \in 1..Len(df)}

pipe_checks_ceiling_only(df, others) ==
    IF Len(df) + others > WHORowCeiling THEN "ValueError" ELSE "ok"

(* pipe_checks: df holds the rows the model follows, others counts further  *)
(* rows of the feed, each of another country with a single DATE_UPDATED     *)
pipe_checks(df, others) ==
    LET nunique == WHOGroupCounts(df) \cup (IF others > 0 THEN {1} ELSE {})
    IN  IF Len(df) + others > WHORowCeiling THEN "ValueError"
        ELSE IF Cardinality(nunique) = 1
             THEN (IF nunique # {1} THEN "ValueError" ELSE "ok")
             ELSE "ValueError"

(* pipe_rename_countries: COUNTRY.replace(WHO_COUNTRIES) *)
pipe_rename_countries(df) ==
    [i \in 1..Len(df) |->
        [df[i] EXCEPT !.COUNTRY = IF @ \in DOMAIN WHO_COUNTRIES THEN WHO_COUNTRIES[@] ELSE @]]

(* a >= b on two columns: False when either side is NaN *)
ColumnGE(a, b) == ~isnull(a) /\ ~isnull(b) /\ a >= b

mask_1(r) ==
    ColumnGE(r.TOTAL_VACCINATIONS, r.PERSONS_VACCINATED_1PLUS_DOSE)
        \/ isnull(r.PERSONS_VACCINATED_1PLUS_DOSE)

mask_2(r) ==
    ColumnGE(r.TOTAL_VACCINATIONS, r.PERSONS_FULLY_VACCINATED)
        \/ isnull(r.PERSONS_FULLY_VACCINATED)

mask_3(r) ==
    \/ ColumnGE(r.PERSONS_VACCINATED_1PLUS_DOSE, r.PERSONS_FULLY_VACCINATED)
    \/ isnull(r.PERSONS_VACCINATED_1PLUS_DOSE)
    \/ isnull(r.PERSONS_FULLY_VACCINATED)

masks_any(r) == mask_1(r) \/ mask_2(r) \/ mask_3(r)

(* mask_1 & mask_2 & mask_3 *)
masks(r) == mask_1(r) /\ mask_2(r) /\ mask_3(r)

WHOIsReporting(r) == r.DATA_SOURCE = "REPORTING"

WHOIsLocation(r) == r.COUNTRY \in {WHO_COUNTRIES[k] : k \in DOMAIN WHO_COUNTRIES}

(* pipe_filter_entries *)
pipe_filter_entries(df) ==
    SelectSeq(SelectSeq(SelectSeq(df, WHOIsReporting), masks), WHOIsLocation)

(* The stripped names of every non-blank VACCINES_USED cell *)
WHOVaccinesUsed(df) ==
    UNION {{Strip(Split(df[i].VACCINES_USED)[k]) : k \in 1..Len(Split(df[i].VACCINES_USED))} :
            i \in {j \in 1..Len(df) : df[j].VACCINES_USED # NaNString}}

(* pipe_vaccine_checks: the sum() of no list is 0, and set(0) raises TypeError *)
pipe_vaccine_checks(df) ==
    LET cells == {i \in 1..Len(df) : df[i].VACCINES_USED # NaNString}
        vaccines_unknown == WHOVaccinesUsed(df) \ WHOVaccineKeys
    IN  IF cells = {} THEN [status |-> "TypeError", unknown |-> {}]
        ELSE IF vaccines_unknown # {} THEN [status |-> "ValueError", unknown |-> vaccines_unknown]
        ELSE [status |-> "ok", unknown |-> {}]

(* Series.replace(WHO_VACCINES) on one name: only a name equal to a key is replaced *)
WHOReplace(name) == IF name \in WHOVaccineKeys THEN <<WHO_VACCINES[name[1]]>> ELSE name

(* _map_vaccines_func on a row whose VACCINES_USED is not blank *)
_map_vaccines_func(row) ==
    LET parts == Split(row.VACCINES_USED)
        vaccines == [k \in 1..Len(parts) |-> WHOReplace(parts[k])]
        only_2doses == \A k \in 1..Len(vaccines) : vaccines[k] \notin {<<v>> : v \in VACCINES_ONE_DOSE}
        additional == IF row.COUNTRY \in DOMAIN ADDITIONAL_VACCINES_USED
                      THEN {<<ADDITIONAL_VACCINES_USED[row.COUNTRY][k]>> :
                                k \in 1..Len(ADDITIONAL_VACCINES_USED[row.COUNTRY])}
                      ELSE {}
        all == {vaccines[k] : k \in 1..Len(vaccines)} \cup additional
    IN  [VACCINES_USED |-> SortedNameSet(all), only_2doses |-> only_2doses]

(* pipe_map_vaccines; pipe_calculate_metrics leaves the integer and NaN cells as they are *)
pipe_map_vaccines(df) ==
    [i \in 1..Len(df) |->
        LET m == _map_vaccines_func(df[i])
        IN  [index |-> df[i].index, COUNTRY |-> df[i].COUNTRY,
             DATE_UPDATED |-> df[i].DATE_UPDATED, DATA_SOURCE |-> df[i].DATA_SOURCE,
             TOTAL_VACCINATIONS |-> df[i].TOTAL_VACCINATIONS,
             PERSONS_VACCINATED_1PLUS_DOSE |-> df[i].PERSONS_VACCINATED_1PLUS_DOSE,
             PERSONS_FULLY_VACCINATED |-> df[i].PERSONS_FULLY_VACCINATED,
             VACCINES_USED |-> m.VACCINES_USED, only_2doses |-> m.only_2doses]]

(* pipeline(): the frame handed to increment_countries, or the step that raised *)
pipeline(df, others) ==
    LET renamed == pipe_rename_countries(df)
        filtered == pipe_filter_entries(renamed)
        vax == pipe_vaccine_checks(filtered)
    IN  IF pipe_checks(df, others) # "ok"
        THEN [status |-> "ValueError", stage |-> "pipe_checks", unknown |-> {}, df |-> << >>]
        ELSE IF vax.status # "ok"
        THEN [status |-> vax.status, stage |-> "pipe_vaccine_checks", unknown |-> vax.unknown,
              df |-> << >>]
        ELSE IF \E i \in 1..Len(filtered) : filtered[i].VACCINES_USED = NaNString
        THEN [status |-> "ValueError", stage |-> "pipe_map_vaccines", unknown |-> {}, df |-> << >>]
        ELSE [status |-> "ok", stage |-> "", unknown |-> {}, df |-> pipe_map_vaccines(filtered)]

CountryRank(c) ==
    CASE c = "Cayman Islands" -> 1
      [] c = "Gambia" -> 2
      [] c = "Tanzania" -> 3

(* df.sort_values("COUNTRY"): the orders of the rows a sort by COUNTRY may give *)
WHOSortedOrders(df) ==
    {p \in [1..Len(df) -> 1..Len(df)] :
        /\ \A i, j \in 1..Len(df) : i # j => p[i] # p[j]
        /\ \A i \in 1..(Len(df) - 1) :
                CountryRank(df[p[i]].COUNTRY) <= CountryRank(df[p[i + 1]].COUNTRY)}

WHOAllNull(row) ==
    /\ isnull(row.PERSONS_VACCINATED_1PLUS_DOSE)
    /\ isnull(row.PERSONS_FULLY_VACCINATED)
    /\ isnull(row.TOTAL_VACCINATIONS)

WHOObservation(row) ==
    Observation(row.DATE_UPDATED, row.TOTAL_VACCINATIONS, row.PERSONS_VACCINATED_1PLUS_DOSE,
                row.PERSONS_FULLY_VACCINATED, NaN, row.VACCINES_USED, "https://covid19.who.int/")

(* The location increment_countries passes for a row *)
WHOIncrementLocation(row) == row.COUNTRY

(* increment_countries: row after row; an exception ends the loop *)
RECURSIVE increment_countries(_, _)
increment_countries(rows, ser) ==
    IF rows = << >> THEN [status |-> "ok", series |-> ser, merged |-> << >>]
    ELSE IF WHOAllNull(Head(rows)) THEN increment_countries(Tail(rows), ser)
    ELSE LET row == Head(rows)
             r == increment(ser, WHOIncrementLocation(row), WHOObservation(row))
             m == [index |-> row.index, location |-> WHOIncrementLocation(row),
                   obs |-> WHOObservation(row), status |-> r.status]
         IN  IF r.status # "ok"
             THEN [status |-> r.status, series |-> ser, merged |-> <<m>>]
             ELSE LET rest == increment_countries(Tail(rows), r.series)
                  IN  [status |-> rest.status, series |-> rest.series,
                       merged |-> <<m>> \o rest.merged]

-----------------------------------------------------------------------------
(* The WHO reconciler: one export() of a feed, over the series earlier runs left *)

MaxWHORows == 2

WHORow(country, date, source, tv, pv, pfv, vaccines) ==
    [COUNTRY |-> country, DATE_UPDATED |-> date, DATA_SOURCE |-> source,
     TOTAL_VACCINATIONS |-> tv, PERSONS_VACCINATED_1PLUS_DOSE |-> pv,
     PERSONS_FULLY_VACCINATED |-> pfv, VACCINES_USED |-> vaccines]

WHOCountryInputs == {"Gambia", "United Republic of Tanzania", "Tanzania", "Aruba"}

WHOVaccineInputs ==
    {<<"Comirnaty">>, <<"Comirnaty", ",", "Janssen">>, <<"Comirnaty", ",", " ", "Janssen">>,
     <<"Comirnaty", ",", "Covaxin">>, NaNString}

WHOCounts == (0..2) \cup {NaN}

(* Rows that differ in country, date and channel; rows that differ in the  *)
(* three counts; rows that differ in the vaccines listed                   *)
WHOShapeRows ==
    {WHORow(c, d, src, 2, 1, 1, <<"Comirnaty">>) :
        c \in WHOCountryInputs, d \in {1, 2, NaN}, src \in {"REPORTING", "OWID"}}

WHOCountRows ==
    {WHORow("Gambia", 2, "REPORTING", tv, pv, pfv, <<"Comirnaty">>) :
        tv \in WHOCounts, pv \in WHOCounts, pfv \in WHOCounts}

WHOVaccineRows ==
    {WHORow(c, 1, "REPORTING", 2, 1, 1, v) : c \in {"Gambia", "Tanzania"}, v \in WHOVaccineInputs}

WHORows == WHOShapeRows \cup WHOCountRows \cup WHOVaccineRows

(* Further rows of a feed: a reported row of either location, at either date or none *)
WHOFurtherRows ==
    {WHORow(c, d, "REPORTING", 2, 1, 1, <<"Comirnaty">>) :
        c \in {"Gambia", "United Republic of Tanzania"}, d \in {1, 2, NaN}}

(* Feeds of n rows: any first row, then further rows *)
RECURSIVE WHOFeedsOf(_)
WHOFeedsOf(n) ==
    IF n = 0 THEN {<< >>}
    ELSE IF n = 1 THEN {<<r>> : r \in WHORows}
    ELSE {Append(f, r) : f \in WHOFeedsOf(n - 1), r \in WHOFurtherRows}

(* read(): the rows with their index *)
WHOIndexed(f) ==
    [i \in 1..Len(f) |->
        [index |-> i, COUNTRY |-> f[i].COUNTRY, DATE_UPDATED |-> f[i].DATE_UPDATED,
         DATA_SOURCE |-> f[i].DATA_SOURCE, TOTAL_VACCINATIONS |-> f[i].TOTAL_VACCINATIONS,
         PERSONS_VACCINATED_1PLUS_DOSE |-> f[i].PERSONS_VACCINATED_1PLUS_DOSE,
         PERSONS_FULLY_VACCINATED |-> f[i].PERSONS_FULLY_VACCINATED,
         VACCINES_USED |-> f[i].VACCINES_USED]]

(* A row of the feed with no reporting date is the only row of its country *)
WHOFeedOK(f) ==
    \A i, j \in 1..Len(f) : (i # j /\ f[i].COUNTRY = f[j].COUNTRY) => ~isnull(f[i].DATE_UPDATED)

WHOOthers == {0, WHORowCeiling - MaxWHORows, WHORowCeiling - MaxWHORows + 1}

WHOInputs ==
    {[op |-> "WHO", feed |-> WHOIndexed(f), others |-> n] :
        f \in {g \in UNION {WHOFeedsOf(k) : k \in 0..MaxWHORows} : WHOFeedOK(g)},
        n \in WHOOthers}

(* What an earlier export() of one Gambia row left behind *)
WHOEarlier(date, tv) ==
    increment([l \in Locations |-> << >>], "Gambia",
              Observation(date, tv, 1, 1, NaN, <<<<"Johnson&Johnson">>, <<"Pfizer/BioNTech">>>>,
                          "https://covid19.who.int/")).series

WHOPriorSeries == {[l \in Locations |-> << >>], WHOEarlier(1, 3)}

InitWHO ==
    /\ inp \in WHOInputs
    /\ series \in WHOPriorSeries
    /\ last = NoRun
    /\ today = 1
    /\ runs = 0
    /\ out = NoStep
    /\ task = NoTasks
    /\ applied = [l \in Locations |-> << >>]

(* export(): pipeline, then increment_countries over the rows sorted by COUNTRY *)
WHOExport ==
    /\ inp.op = "WHO" /\ out = NoStep
    /\ LET p == pipeline(inp.feed, inp.others)
       IN  IF p.status # "ok"
           THEN /\ out' = [op |-> "WHO", status |-> p.status, stage |-> p.stage,
                           unknown |-> p.unknown, df |-> << >>, merged |-> << >>,
                           before |-> series]
                /\ series' = series
           ELSE \E order \in WHOSortedOrders(p.df) :
                    LET r == increment_countries([i \in 1..Len(p.df) |-> p.df[order[i]]], series)
                    IN  /\ out' = [op |-> "WHO", status |-> r.status,
                                   stage |-> IF r.status = "ok" THEN "" ELSE "increment_countries",
                                   unknown |-> {}, df |-> p.df, merged |-> r.merged,
                                   before |-> series]
                        /\ series' = r.series
    /\ UNCHANGED <<last, today, runs, inp, task, applied>>

NextWHO == WHOExport

SpecWHO == InitWHO /\ [][NextWHO]_vars


WHORejected == out.stage = "pipe_checks"

WHOTooManyRows == Len(inp.feed) + inp.others > WHORowCeiling

(* Some country of the feed has two rows with different reporting dates *)
WHOTwoDates ==
    \E i, j \in 1..Len(inp.feed) :
        /\ inp.feed[i].COUNTRY = inp.feed[j].COUNTRY
        /\ ~isnull(inp.feed[i].DATE_UPDATED) /\ ~isnull(inp.feed[j].DATE_UPDATED)
        /\ inp.feed[i].DATE_UPDATED # inp.feed[j].DATE_UPDATED

(* Some country of the feed has no reporting date in any of its rows *)
WHONoDate ==
    \E i \in 1..Len(inp.feed) :
        \A j \in 1..Len(inp.feed) :
            inp.feed[j].COUNTRY = inp.feed[i].COUNTRY => isnull(inp.feed[j].DATE_UPDATED)

WHONoRows == Len(inp.feed) + inp.others = 0

WHONothingDone == series = out.before /\ out.merged = << >> /\ out.df = << >>

(* C6 as stated: the batch is rejected exactly when the feed has more than  *)
(* 300 rows or a location has more than one reporting date, and a rejected *)
(* batch filters and merges nothing.                                       *)
C6_RejectIffCeilingOrTwoDates ==
    out.op = "WHO" =>
        /\ WHORejected <=> (WHOTooManyRows \/ WHOTwoDates)
        /\ WHORejected => WHONothingDone

(* C6, amended: the batch is rejected exactly when the feed has more than   *)
(* 300 rows, or no row at all, or a location that has more than one         *)
(* reporting date or none; a rejected batch filters and merges nothing, so *)
(* every series is what it was.                                            *)
C6_RejectUnlessOneDateEach ==
    out.op = "WHO" =>
        /\ WHORejected <=> (WHOTooManyRows \/ WHOTwoDates \/ WHONoDate \/ WHONoRows)
        /\ WHORejected => WHONothingDone

(* A feed of two dates for Gambia was rejected, and Gambia's earlier series stands *)
C6_Witness ==
    /\ out.op = "WHO" /\ WHORejected
    /\ WHOTwoDates /\ ~WHOTooManyRows
    /\ \E i \in 1..Len(inp.feed) : inp.feed[i].COUNTRY = "Gambia"
    /\ series["Gambia"] # << >>
    /\ series = out.before

Known(x) == ~isnull(x)

(* The row breaks one of the three dose orders on values it reports *)
WHOMaskViolated(r) ==
    \/ Known(r.TOTAL_VACCINATIONS) /\ Known(r.PERSONS_VACCINATED_1PLUS_DOSE)
            /\ r.TOTAL_VACCINATIONS < r.PERSONS_VACCINATED_1PLUS_DOSE
    \/ Known(r.TOTAL_VACCINATIONS) /\ Known(r.PERSONS_FULLY_VACCINATED)
            /\ r.TOTAL_VACCINATIONS < r.PERSONS_FULLY_VACCINATED
    \/ Known(r.PERSONS_VACCINATED_1PLUS_DOSE) /\ Known(r.PERSONS_FULLY_VACCINATED)
            /\ r.PERSONS_VACCINATED_1PLUS_DOSE < r.PERSONS_FULLY_VACCINATED

WHOProduced(i) ==
    \/ \E k \in 1..Len(out.df) : out.df[k].index = i
    \/ \E k \in 1..Len(out.merged) : out.merged[k].index = i

(* C7: a row that breaks any one of the three pairwise dose orders is       *)
(* dropped: it is not in the frame the pipeline returns and no observation *)
(* is merged from it, whatever the other two masks say.                    *)
C7_MaskViolationDropsRow ==
    out.op = "WHO" =>
        \A i \in 1..Len(inp.feed) : WHOMaskViolated(inp.feed[i]) => ~WHOProduced(i)

(* A reported row with total 1 and first doses 2 passes the other two masks *)
(* and is dropped, while the other row of the feed is merged               *)
C7_Witness ==
    /\ out.op = "WHO" /\ out.status = "ok"
    /\ Len(out.merged) = 1
    /\ \E i \in 1..Len(inp.feed) :
        /\ inp.feed[i].TOTAL_VACCINATIONS = 1
        /\ inp.feed[i].PERSONS_VACCINATED_1PLUS_DOSE = 2
        /\ inp.feed[i].DATA_SOURCE = "REPORTING"
        /\ inp.feed[i].COUNTRY = "Gambia"
        /\ ~mask_1(inp.feed[i]) /\ mask_2(inp.feed[i]) /\ mask_3(inp.feed[i])
        /\ ~WHOProduced(i)


-----------------------------------------------------------------------------
(* The incremental scripts as parallel tasks.  A script parses its source,  *)
(* then increments: it reads the series of its location, merges, and writes *)
(* the series back; the WHO script does so row after row.  The steps of     *)
(* different scripts interleave freely; a script runs one task at a time.   *)

Increment(location, obs) == [location |-> location, obs |-> obs]

(* The script has parsed its source: the increments it is about to make *)
Begin(s, todo) ==
    /\ runs < MaxRuns
    /\ task[s].pc = "idle"
    /\ runs' = runs + 1
    /\ task' = [task EXCEPT ![s] =
                    IF todo = << >> THEN Idle
                    ELSE [pc |-> "read", todo |-> todo, seen |-> << >>, overlapped |-> FALSE]]
    /\ UNCHANGED <<series, last, today, inp, out, applied>>

Parsed(data) ==
    IF data.status = "ok" THEN <<Increment(data.location, data.obs)>> ELSE << >>

JapanBegin ==
    \E pv \in Counts : Begin("japan", Parsed(JapanData(pv, pv, 0, today)))

TaiwanBegin ==
    \E d1 \in Counts : Begin("taiwan", Parsed(TaiwanData(d1, 0, today, {"AstraZeneca", "Moderna"})))

JordanBegin ==
    \E pv \in Counts : Begin("jordan", Parsed(JordanData(pv, 0, today)))

PhilippinesBegin ==
    \E total \in Counts : Begin("philippines", Parsed(PhilippinesData(total, 0, 0, today)))

(* Feeds of one row for Gambia, alone or after a row for Tanzania *)
WHOTaskRow(country, tv) == WHORow(country, 1, "REPORTING", tv, 1, 1, <<"Comirnaty">>)

WHOTaskFeeds ==
    {<<WHOTaskRow("Gambia", tv)>> : tv \in {1, 2}}
        \cup {<<WHOTaskRow("United Republic of Tanzania", 2), WHOTaskRow("Gambia", 2)>>}

(* export(): the rows the pipeline returns, sorted by COUNTRY, less the all-null ones *)
WHOBegin ==
    \E f \in WHOTaskFeeds :
        LET p == pipeline(WHOIndexed(f), 0)
        IN  IF p.status # "ok" THEN Begin("who", << >>)
            ELSE \E order \in WHOSortedOrders(p.df) :
                    LET rows == SelectSeq([i \in 1..Len(p.df) |-> p.df[order[i]]],
                                          LAMBDA row : ~WHOAllNull(row))
                    IN  Begin("who", [i \in 1..Len(rows) |->
                                        Increment(WHOIncrementLocation(rows[i]),
                                                  WHOObservation(rows[i]))])

(* increment, first half: read the location's series from its file *)
IncrementRead ==
    \E s \in Scripts :
        /\ task[s].pc = "read"
        /\ task' = [task EXCEPT ![s] = [pc |-> "write", todo |-> task[s].todo,
                                        seen |-> series[Head(task[s].todo).location],
                                        overlapped |-> FALSE]]
        /\ UNCHANGED <<series, last, today, runs, inp, out, applied>>

(* increment, second half: merge into what was read and write the file; a  *)
(* RegressionError ends the script with nothing written                    *)
IncrementWrite ==
    \E s \in Scripts :
        /\ task[s].pc = "write"
        /\ LET location == Head(task[s].todo).location
               obs == Head(task[s].todo).obs
               m == merge(task[s].seen, obs)
               rest == Tail(task[s].todo)
           IN  /\ series' = IF m.status = "ok" THEN [series EXCEPT ![location] = m.series]
                            ELSE series
               /\ applied' = IF m.status = "ok"
                             THEN [applied EXCEPT ![location] = Append(@, obs)]
                             ELSE applied
               /\ last' = [op |-> "increment", location |-> location, status |-> m.status,
                           overlapped |-> task[s].overlapped]
               /\ task' = [t \in Scripts |->
                            IF t = s
                            THEN IF m.status = "ok" /\ rest # << >>
                                 THEN [pc |-> "read", todo |-> rest, seen |-> << >>,
                                       overlapped |-> FALSE]
                                 ELSE Idle
                            ELSE IF task[t].pc = "write" /\ m.status = "ok"
                                 THEN [task[t] EXCEPT !.overlapped = TRUE]
                                 ELSE task[t]]
        /\ UNCHANGED <<today, runs, inp, out>>

NextConc ==
    \/ JapanBegin \/ TaiwanBegin \/ JordanBegin \/ PhilippinesBegin \/ WHOBegin
    \/ IncrementRead \/ IncrementWrite \/ Tick

SpecConc == InitIdle /\ [][NextConc]_vars

(* The series that merging the observations one after another gives *)
RECURSIVE MergeAll(_, _)
MergeAll(s, obs) ==
    IF obs = << >> THEN s ELSE MergeAll(merge(s, Head(obs)).series, Tail(obs))

(* C10: in every interleaving of the scripts' tasks, the series of each     *)
(* location is the result of its own merges applied in the order they were *)
(* written to that location, none lost and none of another location's.    *)
C10_PerLocationSerialized ==
    \A l \in Locations : series[l] = MergeAll(<< >>, applied[l])

(* A second merge for a location was written after another location's task *)
(* wrote between its read and its write                                    *)
C10_Witness ==
    /\ last.op = "increment" /\ last.status = "ok" /\ last.overlapped
    /\ Len(applied[last.location]) = 2
    /\ Len(series[last.location]) = 2
    /\ \E l \in Locations \ {last.location} : series[l] # << >>


-----------------------------------------------------------------------------
(* Failed runs of the incremental pipelines *)

RunFailed == last.op # "none" /\ last.status # "ok"

(* The names of a rendered vaccine string *)
Names(vaccine) == {vaccine[i] : i \in 1..Len(vaccine)}

-----------------------------------------------------------------------------
(* Rows of the WHO feed with unknown counts *)

(* The feed row is a reported row of a location the reconciler knows *)
WHOEligible(r) ==
    /\ r.DATA_SOURCE = "REPORTING"
    /\ r.COUNTRY \in DOMAIN WHO_COUNTRIES \cup {WHO_COUNTRIES[k] : k \in DOMAIN WHO_COUNTRIES}

(* C12: each of the three masks is true for a row when either side of its   *)
(* comparison is unknown, so a reported row of a known location whose known *)
(* counts are in order is in the frame the pipeline returns, whenever the  *)
(* run got past the checks that follow pipe_filter_entries.                *)
C12_UnknownSidePassesMasks ==
    out.op = "WHO" =>
        \A i \in 1..Len(inp.feed) :
            LET r == inp.feed[i]
            IN  /\ (isnull(r.TOTAL_VACCINATIONS) \/ isnull(r.PERSONS_VACCINATED_1PLUS_DOSE))
                        => mask_1(r)
                /\ (isnull(r.TOTAL_VACCINATIONS) \/ isnull(r.PERSONS_FULLY_VACCINATED))
                        => mask_2(r)
                /\ (isnull(r.PERSONS_VACCINATED_1PLUS_DOSE) \/ isnull(r.PERSONS_FULLY_VACCINATED))
                        => mask_3(r)
                /\ (out.stage \in {"", "increment_countries"} /\ WHOEligible(r)
                        /\ ~WHOMaskViolated(r))
                        => \E k \in 1..Len(out.df) : out.df[k].index = i


-----------------------------------------------------------------------------
(* The reconciler's vaccine column *)

(* C13: the one-dose classification of a row is computed on the vaccines of *)
(* the feed together with the location's manual additions: only_2doses is  *)
(* true exactly when no vaccine of the row's resolved set, additions        *)
(* included, is a one-dose product.                                        *)
C13_OverridesBeforeClassification ==
    out.op = "WHO" =>
        \A k \in 1..Len(out.df) :
            out.df[k].only_2doses <=>
                (Names(out.df[k].VACCINES_USED) \cap {<<v>> : v \in VACCINES_ONE_DOSE} = {})


-----------------------------------------------------------------------------
(* Observations handed to increment *)

(* C14: every observation an incremental pipeline hands to increment keeps  *)
(* the dose order total_vaccinations >= people_vaccinated >=                *)
(* people_fully_vaccinated >= total_boosters >= 0 over the fields it        *)
(* reports, so every entry of a series does; an observation that breaks it  *)
(* raises before increment.                                                 *)
C14_DoseOrderBeforeMerge ==
    LET OrderedIfKnown(a, b) == (Known(a) /\ Known(b)) => a >= b
        DoseOrdered(o) ==
            /\ OrderedIfKnown(o.total_vaccinations, o.people_vaccinated)
            /\ OrderedIfKnown(o.total_vaccinations, o.people_fully_vaccinated)
            /\ OrderedIfKnown(o.total_vaccinations, o.total_boosters)
            /\ OrderedIfKnown(o.people_vaccinated, o.people_fully_vaccinated)
            /\ OrderedIfKnown(o.people_vaccinated, o.total_boosters)
            /\ OrderedIfKnown(o.people_fully_vaccinated, o.total_boosters)
            /\ \A f \in CumulativeFields : OrderedIfKnown(o[f], 0)
    IN  /\ LastMerged => DoseOrdered(last.obs)
        /\ \A l \in IncrementalLocations :
                \A i \in 1..Len(series[l]) : DoseOrdered(series[l][i])

-----------------------------------------------------------------------------
(* The vaccine field of the observations handed to increment *)

(* The canonical vaccine names (cowidev.vax.utils.checks.VACCINES_ACCEPTED), *)
(* as far as the pipelines modelled here use them                            *)
CanonicalVaccines ==
    {"Johnson&Johnson", "Medigen", "Moderna", "Oxford/AstraZeneca", "Pfizer/BioNTech",
     "Sinopharm/Beijing", "Sinovac", "Sputnik V"}

(* C15: the vaccine field of every observation handed to increment is not   *)
(* empty, holds canonical names only, none twice, in sorted order; for the  *)
(* WHO feed this covers every VACCINES_USED cell that passed                *)
(* pipe_vaccine_checks, tokens with blanks around them included.            *)
C15_VaccineFieldCanonicalSorted ==
    LET VaccineRendered(vaccine) ==
            /\ vaccine # << >>
            /\ Names(vaccine) \subseteq CanonicalVaccines
            /\ Cardinality(Names(vaccine)) = Len(vaccine)
            /\ vaccine = SortedNames(Names(vaccine))
        WHOVaccineRendered(vaccines) ==
            /\ vaccines # << >>
            /\ Names(vaccines) \subseteq {<<c>> : c \in CanonicalVaccines}
            /\ Cardinality(Names(vaccines)) = Len(vaccines)
            /\ vaccines = SortedNameSet(Names(vaccines))
    IN  /\ LastMerged => VaccineRendered(last.obs.vaccine)
        /\ out.op = "WHO" =>
                \A k \in 1..Len(out.merged) : WHOVaccineRendered(out.merged[k].obs.vaccine)

-----------------------------------------------------------------------------
(* The increments one export() of the WHO feed issues *)

(* C16: an export() whose feed passed pipe_checks calls increment at most   *)
(* once for a location, also when two names of the feed are renamed by     *)
(* WHO_COUNTRIES to the same location.                                     *)
C16_OneIncrementPerLocation ==
    (out.op = "WHO" /\ ~WHORejected) =>
        \A j, k \in 1..Len(out.merged) :
            out.merged[j].location = out.merged[k].location => j = k

=============================================================================
